---- MODULE Spec2Model ----
(***************************************************************************)
(* Row-level authorization and report/notification state machine of the   *)
(* incident-reporting application: the three tables and their policies    *)
(* (supabase migration), the requests a principal can send to them, and   *)
(* the dashboard handlers that send such requests.                        *)
(***************************************************************************)
EXTENDS Integers, Sequences, FiniteSets, TLC

\* ---------------------------------------------------------------- bounds
MaxReports == 1
MaxNotifs == 1
\* list queries on their way in a session beyond which no button is pressed there
MaxInflight == 1

\* ReportIncidentDialog.handleVideoFileChange: 100 * 1024 * 1024 bytes
MaxVideoSize == 104857600
\* NotificationsList.fetchNotifications: .limit(10)
NotificationsLimit == 10
\* the officers whose approval the administrators revisit while sessions are open
Revisited == {"p3"}

Principals == {"p1", "p2", "p3"}
NULL == "null"
\* client clock readings (new Date()) a request can carry
Times == {"t1", "t2"}

\* ----------------------------------------------------------- enumerations
user_role == {"user", "officer"}
incident_status == {"pending", "in_progress", "resolved", "closed"}
notification_status == {"sent", "acknowledged", "resolved"}

VARIABLES
  profiles,                \* table: user_id -> role, NULL when the principal has no row
  incident_reports,        \* table, in created_at order; id = position
  distress_notifications,  \* table, in created_at order; id = position
  inserter,                \* history: per report id, the principal whose insert created it
  resp,                    \* the request the last step sent and the backend's answer
  profile,                 \* useAuth().profile of each principal's browser session
  open,                    \* ReportIncidentDialog: the dialog is open
  videoFile,               \* ReportIncidentDialog: a video file is selected
  UserDashboard_reports,   \* UserDashboard: the list on display
  toasts,                  \* the toasts the last step showed, and in whose session
  OfficerDashboard_reports,          \* OfficerDashboard: the list on display
  NotificationsList_notifications,   \* NotificationsList: the list on display
  SendNotificationDialog_open,       \* id of the displayed report whose dialog is open, or 0
  fetches,                 \* per session, the list queries whose answer is on its way
  channel,                 \* per session, the insert events its subscription has yet to handle
  requests,                \* the requests the last step sent, in order
  user,                    \* useAuth().user of each session: a principal is signed in
  loading,                 \* useAuth().loading of each session
  page                     \* what Index renders in each session

tables == <<profiles, incident_reports, distress_notifications, inserter>>
views == <<OfficerDashboard_reports, NotificationsList_notifications,
           SendNotificationDialog_open, fetches, channel>>
auth == <<user, loading, page>>
ui == <<profile, open, videoFile, UserDashboard_reports, toasts, views, requests, auth>>
vars == <<profiles, incident_reports, distress_notifications, inserter, resp,
          profile, open, videoFile, UserDashboard_reports, toasts,
          OfficerDashboard_reports, NotificationsList_notifications,
          SendNotificationDialog_open, fetches, channel, requests,
          user, loading, page>>

ReportIds == 1..Len(incident_reports)
NotifIds == 1..Len(distress_notifications)

\* ------------------------------------------------------------ table rows
\* the row an insert of (reporter_id, video_url) creates, with the column defaults
\* slip: the status column defaults to another value of the enum
incident_reports_row_in_progress(reporter_id, video_url) ==
  [reporter_id |-> reporter_id, status |-> "in_progress",
   assigned_officer_id |-> NULL, video_url |-> video_url]

incident_reports_row(reporter_id, video_url) ==
  [reporter_id |-> reporter_id, status |-> "pending",
   assigned_officer_id |-> NULL, video_url |-> video_url]

distress_notifications_row(incident_id, officer_id, user_id) ==
  [incident_id |-> incident_id, officer_id |-> officer_id, user_id |-> user_id,
   status |-> "sent", acknowledged_at |-> NULL]

\* ---------------------------------------------------------------- policies
\* slip: the role is taken from the profile the caller's session has cached
get_user_role_cached(user_uuid) == profile[user_uuid]

get_user_role(user_uuid) == profiles[user_uuid]

profiles_select_own(uid, user_id) == uid = user_id
profiles_select_officer(uid, user_id) == get_user_role(uid) = "officer"
profiles_insert_policy(uid, user_id) == uid = user_id
\* slip: officers may update every profile, as they may read every profile
profiles_update_officer(uid, user_id) == uid = user_id \/ get_user_role(uid) = "officer"
profiles_update_policy(uid, user_id) == uid = user_id

reports_select_own(uid, row) == uid = row.reporter_id
\* slip: every registered role passes the officers' read policy
reports_select_any_role(uid, row) == get_user_role(uid) \in user_role
reports_select_officer(uid, row) == get_user_role(uid) = "officer"
reports_insert_policy(uid, row) == uid = row.reporter_id
\* slip: the update policy written as an ownership test
reports_update_own(uid, row) == uid = row.reporter_id
reports_update_policy(uid, row) == get_user_role(uid) = "officer"

notifications_select_own(uid, row) == uid = row.user_id
notifications_select_officer(uid, row) == get_user_role(uid) = "officer"
\* slip: the insert policy tests the sender column instead of the role
notifications_insert_sender(uid, row) == uid = row.officer_id
notifications_insert_policy(uid, row) == get_user_role(uid) = "officer"
\* slip: the update policy names the sender instead of the recipient
notifications_update_sender(uid, row) == uid = row.officer_id
notifications_update_policy(uid, row) == uid = row.user_id

\* row level security is enabled on the three tables and none has a policy FOR
\* DELETE: no row passes
profiles_delete_policy(uid, user_id) == FALSE
\* slip: a delete policy for officers, like the update policy
reports_delete_officer(uid, row) == get_user_role(uid) = "officer"
reports_delete_policy(uid, row) == FALSE
notifications_delete_policy(uid, row) == FALSE

\* permissive policies of one command are OR-ed
ProfileVisible(uid, user_id) == profiles_select_own(uid, user_id) \/ profiles_select_officer(uid, user_id)
ReportVisible(uid, row) == reports_select_own(uid, row) \/ reports_select_officer(uid, row)
NotifVisible(uid, row) == notifications_select_own(uid, row) \/ notifications_select_officer(uid, row)

\* foreign keys into profiles(user_id) and incident_reports(id)
HasProfile(u) == u \in Principals /\ profiles[u] # NULL
ReportFK(row) ==
  /\ HasProfile(row.reporter_id)
  /\ row.assigned_officer_id # NULL => HasProfile(row.assigned_officer_id)
NotifFK(row) ==
  /\ row.incident_id \in ReportIds
  /\ HasProfile(row.officer_id)
  /\ HasProfile(row.user_id)

\* an update payload sets the columns it names and keeps the others
Patch(row, payload) ==
  [f \in DOMAIN row |-> IF f \in DOMAIN payload THEN payload[f] ELSE row[f]]

Response(op, uid, target, rows, error) ==
  [op |-> op, caller |-> uid, role |-> get_user_role(uid),
   target |-> target, rows |-> rows, error |-> error]

\* a request that fails on its way: no policy is checked and no row is touched
Failure(op, uid, target) ==
  [op |-> op, caller |-> uid, role |-> NULL,
   target |-> target, rows |-> {}, error |-> TRUE]

\* a step that sends no request, and a step that shows no toast
NoResponse ==
  [op |-> "none", caller |-> NULL, role |-> NULL,
   target |-> NULL, rows |-> {}, error |-> FALSE]
NoToast == [session |-> NULL, shown |-> <<>>]
Toast(p, titles) == [session |-> p, shown |-> titles]

\* ------------------------------------------------------ Index and Dashboard
\* slip: the test for a missing profile is left out
Dashboard_no_profile_check(authProfile, authLoading) ==
  IF authLoading THEN "Loader2"
  ELSE IF authProfile = "officer" THEN "OfficerDashboard" ELSE "UserDashboard"

\* Dashboard: what it returns for the hook's profile (its role, or null) and loading
Dashboard(authProfile, authLoading) ==
  IF authLoading THEN "Loader2"
  ELSE IF authProfile = NULL THEN "Loading profile..."
  ELSE IF authProfile = "officer" THEN "OfficerDashboard" ELSE "UserDashboard"

\* Index: the spinner while loading; without a user nothing is rendered and the
\* effect navigates to /auth; otherwise Dashboard
Index(authUser, authLoading, authProfile) ==
  IF authLoading THEN "Loader2"
  ELSE IF ~authUser THEN "/auth"
  ELSE Dashboard(authProfile, authLoading)

\* the sessions that have a profile loaded are signed in and done loading, and
\* every session shows what Index renders
Rendered ==
  /\ user = [p \in Principals |-> profile[p] # NULL]
  /\ loading = [p \in Principals |-> FALSE]
  /\ page = [p \in Principals |-> Index(user[p], loading[p], profile[p])]

\* no browser session is open
NoSessions ==
  /\ profile = [p \in Principals |-> NULL]
  /\ open = [p \in Principals |-> FALSE]
  /\ videoFile = [p \in Principals |-> FALSE]
  /\ UserDashboard_reports = [p \in Principals |-> <<>>]
  /\ toasts = NoToast
  /\ OfficerDashboard_reports = [p \in Principals |-> <<>>]
  /\ NotificationsList_notifications = [p \in Principals |-> <<>>]
  /\ SendNotificationDialog_open = [p \in Principals |-> 0]
  /\ fetches = [p \in Principals |-> <<>>]
  /\ channel = [p \in Principals |-> 0]
  /\ requests = <<>>
  /\ Rendered

\* the database as the migration leaves it
Init ==
  /\ profiles = [p \in Principals |-> NULL]
  /\ incident_reports = <<>>
  /\ distress_notifications = <<>>
  /\ inserter = <<>>
  /\ resp = NoResponse
  /\ NoSessions

\* ------------------------------------------------- registration, elevation
\* the contact columns of profiles that registration metadata can fill
ContactAttributes == {"full_name", "address", "phone_number", "sex", "gender"}

\* SignUpData: what lib/auth signUp puts in options.data, all five keys
SignUpData == [a \in ContactAttributes |-> "x"]

\* raw_user_meta_data a registration can carry: a value for some of the keys
Metadata ==
  {SignUpData,
   [a \in {"full_name", "address"} |-> "x"],
   [a \in {"phone_number"} |-> "x"],
   [a \in {} |-> "x"]}

\* the row of auth.users the trigger fires on
auth_users_row(p, meta) == [id |-> p, email |-> "e", raw_user_meta_data |-> meta]

\* slip: a key the metadata lacks is left null
COALESCE_null(meta, key) == IF key \in DOMAIN meta THEN meta[key] ELSE NULL

\* COALESCE(new.raw_user_meta_data ->> key, '')
COALESCE(meta, key) == IF key \in DOMAIN meta THEN meta[key] ELSE ""

\* the profile row handle_new_user inserts, role taking the column default
handle_new_user_row(new) ==
  [user_id |-> new.id,
   full_name |-> COALESCE(new.raw_user_meta_data, "full_name"),
   email |-> new.email,
   address |-> COALESCE(new.raw_user_meta_data, "address"),
   phone_number |-> COALESCE(new.raw_user_meta_data, "phone_number"),
   sex |-> COALESCE(new.raw_user_meta_data, "sex"),
   gender |-> COALESCE(new.raw_user_meta_data, "gender"),
   role |-> "user"]

\* trigger on_auth_user_created, on the insert of the row new into auth.users; the
\* profiles table of the model keeps the role column, the answer shows the row
handle_new_user(new) ==
  /\ profiles[new.id] = NULL
  /\ profiles' = [profiles EXCEPT ![new.id] = handle_new_user_row(new).role]
  /\ resp' = [NoResponse EXCEPT !.op = "sign_up", !.caller = new.id,
                                !.target = new.raw_user_meta_data,
                                !.rows = {handle_new_user_row(new)}]
  /\ UNCHANGED <<incident_reports, distress_notifications, inserter>>

\* "manual role approval by administrators": done outside the application, with
\* the service role, which the policies do not bind
manual_role_approval(p, role) ==
  /\ profiles[p] # NULL
  /\ profiles[p] # role
  /\ profiles' = [profiles EXCEPT ![p] = role]
  /\ resp' = [NoResponse EXCEPT !.op = "role_approval"]
  /\ UNCHANGED <<incident_reports, distress_notifications, inserter>>

\* ------------------------------------------------------ requests: profiles
\* update profiles set role = <role> where user_id = <userId>, sent by uid.
\* A row the policies hide from uid is not updated and no error is returned.
updateUserRole(uid, userId, role) ==
  /\ HasProfile(uid)
  /\ LET hit == /\ HasProfile(userId)
                /\ ProfileVisible(uid, userId)
                /\ profiles_update_policy(uid, userId)
     IN /\ profiles' = IF hit THEN [profiles EXCEPT ![userId] = role] ELSE profiles
        /\ resp' = Response("update_profile", uid, NULL, {}, FALSE)
  /\ UNCHANGED <<incident_reports, distress_notifications, inserter>>

\* insert into profiles (user_id, role), as uid: WITH CHECK, the reference to
\* auth.users, whose rows all have their profile from the trigger, and user_id UNIQUE
InsertProfile(uid, user_id, role) ==
  /\ HasProfile(uid)
  /\ LET ok == /\ profiles_insert_policy(uid, user_id)
               /\ HasProfile(user_id)
               /\ profiles[user_id] = NULL
     IN /\ profiles' = IF ok THEN [profiles EXCEPT ![user_id] = role] ELSE profiles
        /\ resp' = Response("insert_profile", uid, user_id, {}, ~ok)
  /\ UNCHANGED <<incident_reports, distress_notifications, inserter>>

\* update profiles set <payload> where user_id = <userId>, as uid; the payload
\* names role or user_id.  The USING expression is applied to the new row too.
UpdateProfile(uid, userId, payload) ==
  /\ HasProfile(uid)
  /\ LET hit == /\ HasProfile(userId)
                /\ ProfileVisible(uid, userId)
                /\ profiles_update_policy(uid, userId)
         new_user_id == IF "user_id" \in DOMAIN payload THEN payload.user_id ELSE userId
         new_role == IF "role" \in DOMAIN payload THEN payload.role ELSE profiles[userId]
         ok == /\ profiles_update_policy(uid, new_user_id)
               /\ new_user_id = userId
     IN /\ profiles' =
             IF hit /\ ok THEN [profiles EXCEPT ![userId] = new_role] ELSE profiles
        /\ resp' = Response("update_profile", uid, userId, {}, hit /\ ~ok)
  /\ UNCHANGED <<incident_reports, distress_notifications, inserter>>

\* ---------------------------------------------- requests: incident_reports
\* select * from incident_reports [where reporter_id = target], as uid, on table tbl
SelectReports(tbl, uid, target) ==
  {[id |-> i, row |-> tbl[i]] : i \in
     {j \in 1..Len(tbl) : /\ ReportVisible(uid, tbl[j])
                          /\ (target = NULL \/ tbl[j].reporter_id = target)}}

QueryReports(uid, target) ==
  /\ HasProfile(uid)
  /\ resp' = Response("select_reports", uid, target,
                      SelectReports(incident_reports, uid, target), FALSE)
  /\ UNCHANGED <<profiles, incident_reports, distress_notifications, inserter>>

\* insert into incident_reports, as uid: the new row must pass WITH CHECK
InsertReportOk(uid, row) == reports_insert_policy(uid, row) /\ ReportFK(row)

InsertReport(uid, row) ==
  /\ HasProfile(uid)
  /\ Len(incident_reports) < MaxReports
  /\ incident_reports' =
       IF InsertReportOk(uid, row) THEN Append(incident_reports, row) ELSE incident_reports
  /\ inserter' = IF InsertReportOk(uid, row) THEN Append(inserter, uid) ELSE inserter
  /\ resp' = Response("insert_report", uid, NULL, {}, ~InsertReportOk(uid, row))
  /\ UNCHANGED <<profiles, distress_notifications>>

\* update incident_reports set <payload> where id = <id>, as uid.  USING filters
\* the rows silently; having no WITH CHECK, the policy applies USING to the new row.
UpdateReport(uid, id, payload) ==
  /\ HasProfile(uid)
  /\ LET hit == /\ id \in ReportIds
                /\ ReportVisible(uid, incident_reports[id])
                /\ reports_update_policy(uid, incident_reports[id])
         new == Patch(incident_reports[id], payload)
         ok  == reports_update_policy(uid, new) /\ ReportFK(new)
     IN /\ incident_reports' =
             IF hit /\ ok THEN [incident_reports EXCEPT ![id] = new] ELSE incident_reports
        /\ resp' = Response("update_report", uid, id, {}, hit /\ ~ok)
  /\ UNCHANGED <<profiles, distress_notifications, inserter>>

\* ---------------------------------------- requests: distress_notifications
SelectNotifications(tbl, uid, target) ==
  {[id |-> i, row |-> tbl[i]] : i \in
     {j \in 1..Len(tbl) : /\ NotifVisible(uid, tbl[j])
                          /\ (target = NULL \/ tbl[j].user_id = target)}}

QueryNotifications(uid, target) ==
  /\ HasProfile(uid)
  /\ resp' = Response("select_notifications", uid, target,
                      SelectNotifications(distress_notifications, uid, target), FALSE)
  /\ UNCHANGED <<profiles, incident_reports, distress_notifications, inserter>>

InsertNotification(uid, row) ==
  /\ HasProfile(uid)
  /\ Len(distress_notifications) < MaxNotifs
  /\ LET ok == notifications_insert_policy(uid, row) /\ NotifFK(row)
     IN /\ distress_notifications' =
             IF ok THEN Append(distress_notifications, row) ELSE distress_notifications
        /\ resp' = Response("insert_notification", uid, NULL, {}, ~ok)
  /\ UNCHANGED <<profiles, incident_reports, inserter>>

UpdateNotification(uid, id, payload) ==
  /\ HasProfile(uid)
  /\ LET hit == /\ id \in NotifIds
                /\ NotifVisible(uid, distress_notifications[id])
                /\ notifications_update_policy(uid, distress_notifications[id])
         new == Patch(distress_notifications[id], payload)
         ok  == notifications_update_policy(uid, new) /\ NotifFK(new)
     IN /\ distress_notifications' =
             IF hit /\ ok THEN [distress_notifications EXCEPT ![id] = new]
                          ELSE distress_notifications
        /\ resp' = Response("update_notification", uid, id, {}, hit /\ ~ok)
  /\ UNCHANGED <<profiles, incident_reports, inserter>>

\* ------------------------------------------------------- requests: delete
\* ids are positions: a row that goes away renumbers the rows after it
Remove(seq, k) == SubSeq(seq, 1, k - 1) \o SubSeq(seq, k + 1, Len(seq))

\* incident_id ... ON DELETE CASCADE: the notifications of report id go with it
Cascade(notifs, id) ==
  LET kept == SelectSeq(notifs, LAMBDA n : n.incident_id # id)
  IN [k \in 1..Len(kept) |->
        [kept[k] EXCEPT !.incident_id = IF @ > id THEN @ - 1 ELSE @]]

\* the tables without report id
DeleteReportRows(db, id) ==
  [reports |-> Remove(db.reports, id), inserter |-> Remove(db.inserter, id),
   notifs |-> Cascade(db.notifs, id)]

\* reporter_id, officer_id, user_id ... ON DELETE CASCADE: the tables without the
\* reports u filed and without the notifications u sent or received
RECURSIVE DeleteProfileRows(_, _)
DeleteProfileRows(db, u) ==
  IF \E i \in 1..Len(db.reports) : db.reports[i].reporter_id = u
  THEN DeleteProfileRows(
         DeleteReportRows(db, CHOOSE i \in 1..Len(db.reports) : db.reports[i].reporter_id = u), u)
  ELSE [db EXCEPT !.notifs = SelectSeq(@, LAMBDA n : n.officer_id # u /\ n.user_id # u)]

\* delete from incident_reports where id = <id>, as uid: the rows the policies
\* hide are not deleted and no error is returned
DeleteReport(uid, id) ==
  /\ HasProfile(uid)
  /\ LET hit == /\ id \in ReportIds
                /\ ReportVisible(uid, incident_reports[id])
                /\ reports_delete_policy(uid, incident_reports[id])
         db == DeleteReportRows([reports |-> incident_reports, inserter |-> inserter,
                                 notifs |-> distress_notifications], id)
     IN /\ incident_reports' = IF hit THEN db.reports ELSE incident_reports
        /\ inserter' = IF hit THEN db.inserter ELSE inserter
        /\ distress_notifications' = IF hit THEN db.notifs ELSE distress_notifications
  /\ resp' = Response("delete_report", uid, id, {}, FALSE)
  /\ UNCHANGED profiles

\* delete from distress_notifications where id = <id>, as uid
DeleteNotification(uid, id) ==
  /\ HasProfile(uid)
  /\ LET hit == /\ id \in NotifIds
                /\ NotifVisible(uid, distress_notifications[id])
                /\ notifications_delete_policy(uid, distress_notifications[id])
     IN distress_notifications' =
          IF hit THEN Remove(distress_notifications, id) ELSE distress_notifications
  /\ resp' = Response("delete_notification", uid, id, {}, FALSE)
  /\ UNCHANGED <<profiles, incident_reports, inserter>>

\* delete from profiles where user_id = <userId>, as uid; assigned_officer_id
\* references profiles with no ON DELETE action, so a profile still assigned to
\* a report that stays cannot go
DeleteProfile(uid, userId) ==
  /\ HasProfile(uid)
  /\ LET hit == /\ HasProfile(userId)
                /\ ProfileVisible(uid, userId)
                /\ profiles_delete_policy(uid, userId)
         ok == \A i \in ReportIds :
                  incident_reports[i].assigned_officer_id = userId
                     => incident_reports[i].reporter_id = userId
         db == DeleteProfileRows([reports |-> incident_reports, inserter |-> inserter,
                                  notifs |-> distress_notifications], userId)
     IN /\ profiles' = IF hit /\ ok THEN [profiles EXCEPT ![userId] = NULL] ELSE profiles
        /\ incident_reports' = IF hit /\ ok THEN db.reports ELSE incident_reports
        /\ inserter' = IF hit /\ ok THEN db.inserter ELSE inserter
        /\ distress_notifications' = IF hit /\ ok THEN db.notifs ELSE distress_notifications
        /\ resp' = Response("delete_profile", uid, userId, {}, hit /\ ~ok)

\* ------------------------------------------------ payloads a caller can send
ReportInserts ==
  {incident_reports_row(r, NULL) : r \in Principals}

ReportUpdates(uid) ==
  {[status |-> s, assigned_officer_id |-> uid] : s \in {"in_progress", "closed"}}
  \cup {[reporter_id |-> "p2"]}

NotificationInserts ==
  {distress_notifications_row(i, o, u) :
     i \in {1}, o \in Principals, u \in Principals}

NotificationUpdates ==
  {[status |-> "acknowledged", acknowledged_at |-> t] : t \in Times}
  \cup {[acknowledged_at |-> NULL]}
  \cup {[user_id |-> "p2"]}

\* ----------------------------------------- requests sent outside the views
RoleChange ==
  \/ \E p \in Principals, r \in user_role :
        manual_role_approval(p, r) /\ UNCHANGED ui
  \/ \E c \in Principals, u \in Principals, r \in user_role :
        updateUserRole(c, u, r) /\ UNCHANGED ui

\* registration and the requests on profiles
ProfileUpdates ==
  {[role |-> r] : r \in user_role} \cup {[user_id |-> u] : u \in Principals}

NextProfiles ==
  \/ \E p \in Principals, meta \in Metadata :
        handle_new_user(auth_users_row(p, meta)) /\ UNCHANGED ui
  \/ \E p \in Principals, r \in user_role : manual_role_approval(p, r) /\ UNCHANGED ui
  \/ \E c \in Principals, u \in Principals, r \in user_role :
        InsertProfile(c, u, r) /\ UNCHANGED ui
  \/ \E c \in Principals, u \in Principals, pl \in ProfileUpdates :
        UpdateProfile(c, u, pl) /\ UNCHANGED ui

ProfilesSpec == Init /\ [][NextProfiles]_vars

\* every principal is registered and nothing has been filed
InitRegistered ==
  /\ profiles = [p \in Principals |-> "user"]
  /\ incident_reports = <<>>
  /\ inserter = <<>>
  /\ distress_notifications = <<>>
  /\ resp = NoResponse
  /\ NoSessions

NextReports ==
  \/ RoleChange
  \/ \E c \in Principals, row \in ReportInserts : InsertReport(c, row) /\ UNCHANGED ui
  \/ \E c \in Principals, i \in 1..MaxReports :
        \E pl \in ReportUpdates(c) : UpdateReport(c, i, pl) /\ UNCHANGED ui

ReportsSpec == InitRegistered /\ [][NextReports]_vars

\* every principal is registered and p1 has filed one report
InitFiled ==
  /\ profiles = [p \in Principals |-> "user"]
  /\ incident_reports = <<incident_reports_row("p1", NULL)>>
  /\ inserter = <<"p1">>
  /\ distress_notifications = <<>>
  /\ resp = NoResponse
  /\ NoSessions

NextNotifications ==
  \/ RoleChange
  \/ \E c \in Principals, row \in NotificationInserts :
        InsertNotification(c, row) /\ UNCHANGED ui
  \/ \E c \in Principals, i \in 1..MaxNotifs, pl \in NotificationUpdates :
        UpdateNotification(c, i, pl) /\ UNCHANGED ui

NotificationsSpec == InitFiled /\ [][NextNotifications]_vars

\* delete requests on the three tables, between inserts and role approvals
NextDeletes ==
  \/ \E p \in Principals, r \in user_role : manual_role_approval(p, r) /\ UNCHANGED ui
  \/ \E c \in Principals, row \in ReportInserts : InsertReport(c, row) /\ UNCHANGED ui
  \/ \E c \in Principals, row \in NotificationInserts :
        InsertNotification(c, row) /\ UNCHANGED ui
  \/ \E c \in Principals, i \in 1..MaxReports : DeleteReport(c, i) /\ UNCHANGED ui
  \/ \E c \in Principals, i \in 1..MaxNotifs : DeleteNotification(c, i) /\ UNCHANGED ui
  \/ \E c \in Principals, u \in Principals : DeleteProfile(c, u) /\ UNCHANGED ui

DeletesSpec == InitRegistered /\ [][NextDeletes]_vars

\* reads of both tables, between inserts and role approvals
NextReads ==
  \/ \E p \in Principals, r \in user_role : manual_role_approval(p, r) /\ UNCHANGED ui
  \/ \E c \in Principals, row \in ReportInserts : InsertReport(c, row) /\ UNCHANGED ui
  \/ \E c \in Principals, row \in NotificationInserts :
        InsertNotification(c, row) /\ UNCHANGED ui
  \/ \E c \in Principals, t \in Principals \cup {NULL} :
        QueryReports(c, t) /\ UNCHANGED ui
  \/ \E c \in Principals, t \in Principals \cup {NULL} :
        QueryNotifications(c, t) /\ UNCHANGED ui

ReadsSpec == InitRegistered /\ [][NextReads]_vars

\* ------------------------------------------------ insert events (realtime)
\* Dashboard: a loaded profile with role officer renders OfficerDashboard, any other
\* loaded profile UserDashboard, which mounts NotificationsList with the user's id
OfficerDashboard_mounted(p) == page[p] = "OfficerDashboard"
NotificationsList_mounted(p) == page[p] = "UserDashboard"

\* slip: the officers' subscription carries the filter of the user's one
postgres_changes_reports_filtered(row) ==
  [p \in Principals |->
     IF OfficerDashboard_mounted(p) /\ row.reporter_id = p /\ ReportVisible(p, row)
     THEN channel[p] + 1 ELSE channel[p]]

\* event INSERT on incident_reports, no filter: one event for each subscribed
\* officer view whose principal the policies let read the row
postgres_changes_reports(row) ==
  [p \in Principals |->
     IF OfficerDashboard_mounted(p) /\ ReportVisible(p, row)
     THEN channel[p] + 1 ELSE channel[p]]

\* event INSERT on distress_notifications, filter user_id=eq.<userId>
postgres_changes_notifications(row) ==
  [p \in Principals |->
     IF NotificationsList_mounted(p) /\ row.user_id = p /\ NotifVisible(p, row)
     THEN channel[p] + 1 ELSE channel[p]]

\* ------------------------------------------------ the user's report form
\* .order('created_at', { ascending: false })
RECURSIVE OrderDesc(_)
OrderDesc(rows) ==
  IF rows = {} THEN <<>>
  ELSE LET newest == CHOOSE r \in rows : \A q \in rows : q.id <= r.id
       IN <<newest>> \o OrderDesc(rows \ {newest})

\* auth.signUp: the trigger on auth.users creates the profile
signUp(p) ==
  /\ handle_new_user(auth_users_row(p, SignUpData))
  /\ toasts' = NoToast
  /\ requests' = <<"sign_up">>
  /\ UNCHANGED <<profile, open, videoFile, UserDashboard_reports, views>>
  /\ UNCHANGED auth

\* the session of the signed-in principal loads its own profile row, and Index
\* renders again
getUserProfile(userId) ==
  /\ HasProfile(userId)
  /\ profile[userId] = NULL
  /\ profile' = [profile EXCEPT ![userId] =
                   IF ProfileVisible(userId, userId) THEN profiles[userId] ELSE NULL]
  /\ resp' = Response("select_profile", userId, userId, {}, ~ProfileVisible(userId, userId))
  /\ toasts' = NoToast
  /\ requests' = <<"select_profile">>
  /\ user' = [user EXCEPT ![userId] = TRUE]
  /\ page' = [page EXCEPT ![userId] = Index(user'[userId], loading[userId], profile'[userId])]
  /\ UNCHANGED <<tables, open, videoFile, UserDashboard_reports, views, loading>>

\* UserDashboard.fetchReports; fail: the request fails on the way
UserDashboard_fetchReports(p, fail) ==
  /\ profile[p] = "user"
  /\ resp' = Response("select_reports", p, p,
                      IF fail THEN {} ELSE SelectReports(incident_reports, p, p), fail)
  /\ UserDashboard_reports' =
       IF fail THEN UserDashboard_reports
       ELSE [UserDashboard_reports EXCEPT
               ![p] = OrderDesc(SelectReports(incident_reports, p, p))]
  /\ toasts' = IF fail THEN Toast(p, <<"Error">>) ELSE NoToast
  /\ requests' = <<"select_reports">>
  /\ UNCHANGED <<tables, profile, open, videoFile, views>>
  /\ UNCHANGED auth

\* Dialog onOpenChange
setOpen(p, value) ==
  /\ profile[p] = "user"
  /\ open[p] # value
  /\ open' = [open EXCEPT ![p] = value]
  /\ resp' = NoResponse
  /\ toasts' = NoToast
  /\ requests' = <<>>
  /\ UNCHANGED <<tables, profile, videoFile, UserDashboard_reports, views>>
  /\ UNCHANGED auth

handleVideoFileChange(p, size) ==
  /\ open[p]
  /\ videoFile' = IF size > MaxVideoSize THEN videoFile ELSE [videoFile EXCEPT ![p] = TRUE]
  /\ toasts' = IF size > MaxVideoSize THEN Toast(p, <<"Error">>) ELSE NoToast
  /\ resp' = NoResponse
  /\ requests' = <<>>
  /\ UNCHANGED <<tables, profile, open, UserDashboard_reports, views>>
  /\ UNCHANGED auth

\* uploadVideo: the public URL of the uploaded file, null when the upload fails
\* slip: the upload's error is not thrown and the URL is returned all the same
uploadVideo_unchecked(file, uploadOk) == IF file THEN "url" ELSE NULL

uploadVideo(file, uploadOk) == IF file /\ uploadOk THEN "url" ELSE NULL

\* the requests one submission sends: the upload of a selected video, one insert,
\* and after a successful insert the list query of onReportSubmitted
ReportIncidentDialog_requests(video, ok) ==
  (IF video THEN <<"upload_video">> ELSE <<>>) \o <<"insert_report">> \o
  (IF ok THEN <<"select_reports">> ELSE <<>>)

\* ReportIncidentDialog.onSubmit.  uploadOk: the upload of a selected video
\* succeeds; fail: the insert request fails on the way; refetchFail: so does the
\* fetchReports that onReportSubmitted starts.
ReportIncidentDialog_onSubmit(p, uploadOk, fail, refetchFail) ==
  /\ open[p]
  /\ profile[p] # NULL
  /\ Len(incident_reports) < MaxReports
  /\ LET videoUrl == uploadVideo(videoFile[p], uploadOk)
         warning  == IF videoFile[p] /\ ~uploadOk THEN <<"Warning">> ELSE <<>>
         row      == incident_reports_row(p, videoUrl)
         ok       == ~fail /\ InsertReportOk(p, row)
         tbl      == Append(incident_reports, row)
     IN /\ incident_reports' = IF ok THEN tbl ELSE incident_reports
        /\ inserter' = IF ok THEN Append(inserter, p) ELSE inserter
        /\ resp' = IF fail THEN Failure("insert_report", p, NULL)
                   ELSE Response("insert_report", p, NULL, {}, ~ok)
        /\ open' = IF ok THEN [open EXCEPT ![p] = FALSE] ELSE open
        /\ videoFile' = IF ok THEN [videoFile EXCEPT ![p] = FALSE] ELSE videoFile
        /\ UserDashboard_reports' =
             IF ok /\ ~refetchFail
             THEN [UserDashboard_reports EXCEPT ![p] = OrderDesc(SelectReports(tbl, p, p))]
             ELSE UserDashboard_reports
        /\ toasts' = Toast(p, warning \o
                         (IF ok THEN <<"Success">> ELSE <<"Error">>) \o
                         (IF ok /\ refetchFail THEN <<"Error">> ELSE <<>>))
        /\ channel' = IF ok THEN postgres_changes_reports(row) ELSE channel
        /\ requests' = ReportIncidentDialog_requests(videoFile[p], ok)
  /\ UNCHANGED <<profiles, distress_notifications, profile, OfficerDashboard_reports,
                 NotificationsList_notifications, SendNotificationDialog_open, fetches>>
  /\ UNCHANGED auth

NextReportForm ==
  \/ \E p \in Principals : signUp(p)
  \/ \E p \in Principals : getUserProfile(p)
  \/ \E p \in Principals, fail \in BOOLEAN : UserDashboard_fetchReports(p, fail)
  \/ \E p \in Principals, value \in BOOLEAN : setOpen(p, value)
  \/ \E p \in Principals, size \in {MaxVideoSize, MaxVideoSize + 1} :
        handleVideoFileChange(p, size)
  \/ \E p \in Principals, uploadOk \in BOOLEAN, fail \in BOOLEAN, refetchFail \in BOOLEAN :
        ReportIncidentDialog_onSubmit(p, uploadOk, fail, refetchFail)

ReportFormSpec == Init /\ [][NextReportForm]_vars

\* ------------------------------------------------ the dashboards' requests
Displayed(list, id) == \E k \in 1..Len(list) : list[k].id = id
Entry(list, id) == list[CHOOSE k \in 1..Len(list) : list[k].id = id]

\* .limit(n) after .order('created_at', { ascending: false })
Limit(rows, n) ==
  LET ordered == OrderDesc(rows)
      len == IF Len(ordered) < n THEN Len(ordered) ELSE n
  IN {ordered[k] : k \in 1..len}

\* the list query of OfficerDashboard.fetchReports, answered from table tbl
OfficerDashboard_fetchReports(p, tbl) ==
  Response("select_reports", p, NULL, SelectReports(tbl, p, NULL), FALSE)

\* slip: the list query filters on the sender column
NotificationsList_fetchNotifications_by_officer(p, tbl) ==
  Response("select_notifications", p, p,
           Limit({r \in SelectNotifications(tbl, p, NULL) : r.row.officer_id = p},
                 NotificationsLimit), FALSE)

\* slip: the list query has no limit
NotificationsList_fetchNotifications_unlimited(p, tbl) ==
  Response("select_notifications", p, p, SelectNotifications(tbl, p, p), FALSE)

\* the list query of NotificationsList.fetchNotifications, answered from table tbl
NotificationsList_fetchNotifications(p, tbl) ==
  Response("select_notifications", p, p,
           Limit(SelectNotifications(tbl, p, p), NotificationsLimit), FALSE)

\* -------------------------------------------------------- OfficerDashboard
\* slip: Close is rendered for a pending report too
Buttons_close_from_pending(status) ==
  CASE status = "pending" -> {"in_progress", "closed"}
    [] status = "in_progress" -> {"resolved", "closed"}
    [] OTHER -> {}

\* the status buttons a displayed report offers
Buttons(status) ==
  CASE status = "pending" -> {"in_progress"}
    [] status = "in_progress" -> {"resolved", "closed"}
    [] OTHER -> {}

\* slip: the update names the status and leaves the assignment alone
updateReportStatus_status_only(p, status) == [status |-> status]

\* slip: the update carries the status with an empty assignment
updateReportStatus_unassigned(p, status) == [status |-> status, assigned_officer_id |-> NULL]

\* the update one click sends: status and assigned_officer_id together
updateReportStatus_payload(p, status) == [status |-> status, assigned_officer_id |-> p]

\* slip: a failed update is sent a second time
updateReportStatus_retry(error) ==
  IF error THEN <<"update_report", "update_report">>
  ELSE <<"update_report", "select_reports">>

\* the requests one click on a status button sends
updateReportStatus_requests(error) ==
  IF error THEN <<"update_report">> ELSE <<"update_report", "select_reports">>

\* OfficerDashboard.updateReportStatus, from a button of a displayed report;
\* fail: the request fails on its way
OfficerDashboard_updateReportStatus(p, reportId, status, fail) ==
  /\ OfficerDashboard_mounted(p)
  /\ Displayed(OfficerDashboard_reports[p], reportId)
  /\ status \in Buttons(Entry(OfficerDashboard_reports[p], reportId).row.status)
  /\ Len(fetches[p]) < MaxInflight
  /\ IF fail
     THEN /\ resp' = Failure("update_report", p, reportId)
          /\ UNCHANGED tables
     ELSE UpdateReport(p, reportId, updateReportStatus_payload(p, status))
  /\ fetches' =
       IF resp'.error THEN fetches
       ELSE [fetches EXCEPT
               ![p] = Append(@, OfficerDashboard_fetchReports(p, incident_reports'))]
  /\ toasts' = Toast(p, IF resp'.error THEN <<"Error">> ELSE <<"Success">>)
  /\ requests' = updateReportStatus_requests(resp'.error)
  /\ UNCHANGED <<profile, open, videoFile, UserDashboard_reports,
                 OfficerDashboard_reports, NotificationsList_notifications,
                 SendNotificationDialog_open, channel>>
  /\ UNCHANGED auth

\* the answer of a fetchReports arrives (fail: as an error); a dialog whose report
\* is no longer in the list is unmounted with its row
OfficerDashboard_setReports(p, k, fail) ==
  /\ OfficerDashboard_mounted(p)
  /\ k \in 1..Len(fetches[p])
  /\ LET list == OrderDesc(fetches[p][k].rows)
     IN /\ resp' = IF fail THEN Failure("select_reports", p, NULL) ELSE fetches[p][k]
        /\ OfficerDashboard_reports' =
             IF fail THEN OfficerDashboard_reports
             ELSE [OfficerDashboard_reports EXCEPT ![p] = list]
        /\ SendNotificationDialog_open' =
             IF ~fail /\ ~Displayed(list, SendNotificationDialog_open[p])
             THEN [SendNotificationDialog_open EXCEPT ![p] = 0]
             ELSE SendNotificationDialog_open
  /\ fetches' = [fetches EXCEPT ![p] = Remove(@, k)]
  /\ toasts' = IF fail THEN Toast(p, <<"Error">>) ELSE NoToast
  /\ requests' = <<>>
  /\ UNCHANGED <<tables, profile, open, videoFile, UserDashboard_reports,
                 NotificationsList_notifications, channel>>
  /\ UNCHANGED auth

\* the subscription's callback on an insert event
OfficerDashboard_postgres_changes(p) ==
  /\ OfficerDashboard_mounted(p)
  /\ channel[p] > 0
  /\ channel' = [channel EXCEPT ![p] = @ - 1]
  /\ fetches' = [fetches EXCEPT
                   ![p] = Append(@, OfficerDashboard_fetchReports(p, incident_reports))]
  /\ toasts' = Toast(p, <<"New Incident Report">>)
  /\ resp' = NoResponse
  /\ requests' = <<"select_reports">>
  /\ UNCHANGED <<tables, profile, open, videoFile, UserDashboard_reports,
                 OfficerDashboard_reports, NotificationsList_notifications,
                 SendNotificationDialog_open>>
  /\ UNCHANGED auth

\* -------------------------------------------------- SendNotificationDialog
\* Dialog onOpenChange of the dialog of a displayed report; 0 closes it
SendNotificationDialog_setOpen(p, id) ==
  /\ OfficerDashboard_mounted(p)
  /\ id # SendNotificationDialog_open[p]
  /\ id # 0 => /\ SendNotificationDialog_open[p] = 0
               /\ Displayed(OfficerDashboard_reports[p], id)
  /\ SendNotificationDialog_open' = [SendNotificationDialog_open EXCEPT ![p] = id]
  /\ resp' = NoResponse
  /\ toasts' = NoToast
  /\ requests' = <<>>
  /\ UNCHANGED <<tables, profile, open, videoFile, UserDashboard_reports,
                 OfficerDashboard_reports, NotificationsList_notifications,
                 fetches, channel>>
  /\ UNCHANGED auth

\* SendNotificationDialog.onSubmit: report is the displayed row, officerId the
\* session's profile.user_id
SendNotificationDialog_onSubmit(p, fail) ==
  /\ OfficerDashboard_mounted(p)
  /\ SendNotificationDialog_open[p] # 0
  /\ Len(distress_notifications) < MaxNotifs
  /\ LET report == Entry(OfficerDashboard_reports[p], SendNotificationDialog_open[p])
         row == distress_notifications_row(report.id, p, report.row.reporter_id)
     IN /\ IF fail
           THEN /\ resp' = Failure("insert_notification", p, NULL)
                /\ UNCHANGED tables
           ELSE InsertNotification(p, row)
        /\ channel' = IF resp'.error THEN channel ELSE postgres_changes_notifications(row)
  /\ SendNotificationDialog_open' =
       IF resp'.error THEN SendNotificationDialog_open
       ELSE [SendNotificationDialog_open EXCEPT ![p] = 0]
  /\ toasts' = Toast(p, IF resp'.error THEN <<"Error">> ELSE <<"Success">>)
  /\ requests' = <<"insert_notification">>
  /\ UNCHANGED <<profile, open, videoFile, UserDashboard_reports,
                 OfficerDashboard_reports, NotificationsList_notifications, fetches>>
  /\ UNCHANGED auth

\* ------------------------------------------------------- NotificationsList
\* the subscription's callback on an insert event
NotificationsList_postgres_changes(p) ==
  /\ NotificationsList_mounted(p)
  /\ channel[p] > 0
  /\ channel' = [channel EXCEPT ![p] = @ - 1]
  /\ fetches' = [fetches EXCEPT
                   ![p] = Append(@, NotificationsList_fetchNotifications(p, distress_notifications))]
  /\ toasts' = Toast(p, <<"New Notification">>)
  /\ resp' = NoResponse
  /\ requests' = <<"select_notifications">>
  /\ UNCHANGED <<tables, profile, open, videoFile, UserDashboard_reports,
                 OfficerDashboard_reports, NotificationsList_notifications,
                 SendNotificationDialog_open>>
  /\ UNCHANGED auth

\* the answer of a fetchNotifications arrives (fail: as an error, which is logged)
NotificationsList_setNotifications(p, k, fail) ==
  /\ NotificationsList_mounted(p)
  /\ k \in 1..Len(fetches[p])
  /\ resp' = IF fail THEN Failure("select_notifications", p, p) ELSE fetches[p][k]
  /\ NotificationsList_notifications' =
       IF fail THEN NotificationsList_notifications
       ELSE [NotificationsList_notifications EXCEPT ![p] = OrderDesc(fetches[p][k].rows)]
  /\ fetches' = [fetches EXCEPT ![p] = Remove(@, k)]
  /\ toasts' = NoToast
  /\ requests' = <<>>
  /\ UNCHANGED <<tables, profile, open, videoFile, UserDashboard_reports,
                 OfficerDashboard_reports, SendNotificationDialog_open, channel>>
  /\ UNCHANGED auth

\* slip: acknowledging writes the third value of the enum
acknowledgeNotification_resolved(t) == [status |-> "resolved", acknowledged_at |-> t]

\* slip: the update sets the status and leaves acknowledged_at out
acknowledgeNotification_status_only(t) == [status |-> "acknowledged"]

\* the update one click on Acknowledge sends
acknowledgeNotification_payload(t) == [status |-> "acknowledged", acknowledged_at |-> t]

\* NotificationsList.acknowledgeNotification, from the button of a row displayed
\* as sent; t: the client's clock
NotificationsList_acknowledgeNotification(p, notificationId, t, fail) ==
  /\ NotificationsList_mounted(p)
  /\ Displayed(NotificationsList_notifications[p], notificationId)
  /\ Entry(NotificationsList_notifications[p], notificationId).row.status = "sent"
  /\ Len(fetches[p]) < MaxInflight
  /\ IF fail
     THEN /\ resp' = Failure("update_notification", p, notificationId)
          /\ UNCHANGED tables
     ELSE UpdateNotification(p, notificationId, acknowledgeNotification_payload(t))
  /\ fetches' =
       IF resp'.error THEN fetches
       ELSE [fetches EXCEPT
               ![p] = Append(@, NotificationsList_fetchNotifications(p, distress_notifications'))]
  /\ toasts' = Toast(p, IF resp'.error THEN <<"Error">> ELSE <<"Acknowledged">>)
  /\ requests' =
       IF resp'.error THEN <<"update_notification">>
       ELSE <<"update_notification", "select_notifications">>
  /\ UNCHANGED <<profile, open, videoFile, UserDashboard_reports,
                 OfficerDashboard_reports, NotificationsList_notifications,
                 SendNotificationDialog_open, channel>>
  /\ UNCHANGED auth

\* ------------------------------------------------ the application at work
\* p1 is on the user dashboard with the report form open, p2 on the officer
\* dashboard, p3 has no session open; every list has been fetched and nothing
\* has been filed
InitMounted ==
  /\ profiles = [p \in Principals |-> IF p = "p1" THEN "user" ELSE "officer"]
  /\ incident_reports = <<>>
  /\ inserter = <<>>
  /\ distress_notifications = <<>>
  /\ resp = NoResponse
  /\ profile = [profiles EXCEPT !["p3"] = NULL]
  /\ open = [p \in Principals |-> p = "p1"]
  /\ videoFile = [p \in Principals |-> FALSE]
  /\ UserDashboard_reports = [p \in Principals |-> <<>>]
  /\ toasts = NoToast
  /\ OfficerDashboard_reports = [p \in Principals |-> <<>>]
  /\ NotificationsList_notifications = [p \in Principals |-> <<>>]
  /\ SendNotificationDialog_open = [p \in Principals |-> 0]
  /\ fetches = [p \in Principals |-> <<>>]
  /\ channel = [p \in Principals |-> 0]
  /\ requests = <<>>
  /\ Rendered

\* from the report to its acknowledged notification, one user and one officer
NextApp ==
  \/ \E p \in Principals, fail \in BOOLEAN :
        ReportIncidentDialog_onSubmit(p, TRUE, fail, FALSE)
  \/ \E p \in Principals, i \in 1..MaxReports, s \in incident_status, fail \in BOOLEAN :
        OfficerDashboard_updateReportStatus(p, i, s, fail)
  \/ \E p \in Principals, fail \in BOOLEAN : \E k \in 1..Len(fetches[p]) :
        OfficerDashboard_setReports(p, k, fail)
  \/ \E p \in Principals : OfficerDashboard_postgres_changes(p)
  \/ \E p \in Principals, i \in 0..MaxReports : SendNotificationDialog_setOpen(p, i)
  \/ \E p \in Principals, fail \in BOOLEAN : SendNotificationDialog_onSubmit(p, fail)
  \/ \E p \in Principals : NotificationsList_postgres_changes(p)
  \/ \E p \in Principals, fail \in BOOLEAN : \E k \in 1..Len(fetches[p]) :
        NotificationsList_setNotifications(p, k, fail)
  \/ \E p \in Principals, i \in 1..MaxNotifs, t \in Times, fail \in BOOLEAN :
        NotificationsList_acknowledgeNotification(p, i, t, fail)

AppSpec == InitMounted /\ [][NextApp]_vars

\* p1 has filed one report and is on the user dashboard; p2 and p3 are on the
\* officer dashboard, which displays the report
InitOfficers ==
  /\ profiles = [p \in Principals |-> IF p = "p1" THEN "user" ELSE "officer"]
  /\ incident_reports = <<incident_reports_row("p1", NULL)>>
  /\ inserter = <<"p1">>
  /\ distress_notifications = <<>>
  /\ resp = NoResponse
  /\ profile = profiles
  /\ open = [p \in Principals |-> FALSE]
  /\ videoFile = [p \in Principals |-> FALSE]
  /\ UserDashboard_reports =
       [p \in Principals |-> IF p = "p1" THEN OrderDesc(SelectReports(incident_reports, p, p))
                             ELSE <<>>]
  /\ toasts = NoToast
  /\ OfficerDashboard_reports =
       [p \in Principals |-> IF p = "p1" THEN <<>>
                             ELSE OrderDesc(OfficerDashboard_fetchReports(p, incident_reports).rows)]
  /\ NotificationsList_notifications = [p \in Principals |-> <<>>]
  /\ SendNotificationDialog_open = [p \in Principals |-> 0]
  /\ fetches = [p \in Principals |-> <<>>]
  /\ channel = [p \in Principals |-> 0]
  /\ requests = <<>>
  /\ Rendered

\* two officers at work on the reports, one of them with the approval revisited
NextOfficers ==
  \/ \E p \in Revisited, r \in user_role : manual_role_approval(p, r) /\ UNCHANGED ui
  \/ \E p \in Principals, i \in 1..MaxReports, s \in incident_status, fail \in BOOLEAN :
        OfficerDashboard_updateReportStatus(p, i, s, fail)
  \/ \E p \in Principals, fail \in BOOLEAN : \E k \in 1..Len(fetches[p]) :
        OfficerDashboard_setReports(p, k, fail)

OfficersSpec == InitOfficers /\ [][NextOfficers]_vars

\* the same, with the notification dialog in the session of the officer whose
\* approval is revisited
NextRevoked ==
  \/ NextOfficers
  \/ \E p \in Revisited, i \in 0..MaxReports : SendNotificationDialog_setOpen(p, i)
  \/ \E p \in Revisited, fail \in BOOLEAN : SendNotificationDialog_onSubmit(p, fail)

RevokedSpec == InitOfficers /\ [][NextRevoked]_vars

\* officers send notifications about the displayed report, the reporter's list
\* receives and acknowledges them
NextNotify ==
  \/ \E p \in Revisited, r \in user_role : manual_role_approval(p, r) /\ UNCHANGED ui
  \/ \E p \in Principals, i \in 0..MaxReports : SendNotificationDialog_setOpen(p, i)
  \/ \E p \in Principals, fail \in BOOLEAN : SendNotificationDialog_onSubmit(p, fail)
  \/ \E p \in Principals : NotificationsList_postgres_changes(p)
  \/ \E p \in Principals, fail \in BOOLEAN : \E k \in 1..Len(fetches[p]) :
        NotificationsList_setNotifications(p, k, fail)
  \/ \E p \in Principals, i \in 1..MaxNotifs, t \in Times, fail \in BOOLEAN :
        NotificationsList_acknowledgeNotification(p, i, t, fail)

NotifySpec == InitOfficers /\ [][NextNotify]_vars

\* p1 is on the user dashboard and p2 on the officer dashboard; p3 is on either;
\* the users have the report form open, every list has been fetched and nothing
\* has been filed
InitSignals ==
  /\ \E r \in user_role :
        profiles = [p \in Principals |->
                      CASE p = "p1" -> "user" [] p = "p2" -> "officer" [] OTHER -> r]
  /\ incident_reports = <<>>
  /\ inserter = <<>>
  /\ distress_notifications = <<>>
  /\ resp = NoResponse
  /\ profile = profiles
  /\ open = [p \in Principals |-> profiles[p] = "user"]
  /\ videoFile = [p \in Principals |-> FALSE]
  /\ UserDashboard_reports = [p \in Principals |-> <<>>]
  /\ toasts = NoToast
  /\ OfficerDashboard_reports = [p \in Principals |-> <<>>]
  /\ NotificationsList_notifications = [p \in Principals |-> <<>>]
  /\ SendNotificationDialog_open = [p \in Principals |-> 0]
  /\ fetches = [p \in Principals |-> <<>>]
  /\ channel = [p \in Principals |-> 0]
  /\ requests = <<>>
  /\ Rendered

\* reports and notifications are inserted, their insert events handled and the
\* list queries answered
NextSignals ==
  \/ \E p \in Principals, fail \in BOOLEAN :
        ReportIncidentDialog_onSubmit(p, TRUE, fail, FALSE)
  \/ \E p \in Principals : OfficerDashboard_postgres_changes(p)
  \/ \E p \in Principals, fail \in BOOLEAN : \E k \in 1..Len(fetches[p]) :
        OfficerDashboard_setReports(p, k, fail)
  \/ \E p \in Principals, i \in 0..MaxReports : SendNotificationDialog_setOpen(p, i)
  \/ \E p \in Principals, fail \in BOOLEAN : SendNotificationDialog_onSubmit(p, fail)
  \/ \E p \in Principals : NotificationsList_postgres_changes(p)
  \/ \E p \in Principals, fail \in BOOLEAN : \E k \in 1..Len(fetches[p]) :
        NotificationsList_setNotifications(p, k, fail)

SignalsSpec == InitSignals /\ [][NextSignals]_vars
\* the same three sessions right after their dashboards mounted: the list query
\* of each view's useEffect is on its way and the subscriptions are set up
InitRefetch ==
  /\ \E r \in user_role :
        profiles = [p \in Principals |->
                      CASE p = "p1" -> "user" [] p = "p2" -> "officer" [] OTHER -> r]
  /\ incident_reports = <<>>
  /\ inserter = <<>>
  /\ distress_notifications = <<>>
  /\ resp = NoResponse
  /\ profile = profiles
  /\ open = [p \in Principals |-> profiles[p] = "user"]
  /\ videoFile = [p \in Principals |-> FALSE]
  /\ UserDashboard_reports = [p \in Principals |-> <<>>]
  /\ toasts = NoToast
  /\ OfficerDashboard_reports = [p \in Principals |-> <<>>]
  /\ NotificationsList_notifications = [p \in Principals |-> <<>>]
  /\ SendNotificationDialog_open = [p \in Principals |-> 0]
  /\ fetches =
       [p \in Principals |->
          IF profiles[p] = "officer"
          THEN <<OfficerDashboard_fetchReports(p, incident_reports)>>
          ELSE <<NotificationsList_fetchNotifications(p, distress_notifications)>>]
  /\ channel = [p \in Principals |-> 0]
  /\ requests = <<>>
  /\ Rendered

\* inserts, their events, and list queries that are all answered without error,
\* in any order
NextRefetch ==
  \/ \E p \in Principals, fail \in BOOLEAN :
        ReportIncidentDialog_onSubmit(p, TRUE, fail, FALSE)
  \/ \E p \in Principals : OfficerDashboard_postgres_changes(p)
  \/ \E p \in Principals : \E k \in 1..Len(fetches[p]) :
        OfficerDashboard_setReports(p, k, FALSE)
  \/ \E p \in Principals, i \in 0..MaxReports : SendNotificationDialog_setOpen(p, i)
  \/ \E p \in Principals, fail \in BOOLEAN : SendNotificationDialog_onSubmit(p, fail)
  \/ \E p \in Principals : NotificationsList_postgres_changes(p)
  \/ \E p \in Principals : \E k \in 1..Len(fetches[p]) :
        NotificationsList_setNotifications(p, k, FALSE)

RefetchSpec == InitRefetch /\ [][NextRefetch]_vars
\* users file reports and the officers on duty, one or two, act on them
NextDispatch ==
  \/ \E p \in Principals, fail \in BOOLEAN :
        ReportIncidentDialog_onSubmit(p, TRUE, fail, FALSE)
  \/ \E p \in Principals : OfficerDashboard_postgres_changes(p)
  \/ \E p \in Principals, fail \in BOOLEAN : \E k \in 1..Len(fetches[p]) :
        OfficerDashboard_setReports(p, k, fail)
  \/ \E p \in Principals, i \in 1..MaxReports, s \in incident_status, fail \in BOOLEAN :
        OfficerDashboard_updateReportStatus(p, i, s, fail)

DispatchSpec == InitSignals /\ [][NextDispatch]_vars

\* p1 has filed one report, about which officer p2 has sent eleven notifications:
\* p1 has acknowledged the second to the eighth and not the oldest nor the
\* three newest.  p1 and p3 are on the user dashboard, just mounted, the list
\* query of each on its way; p3 was made an officer after its profile was loaded.
InitOverflow ==
  /\ profiles = [p \in Principals |-> IF p = "p1" THEN "user" ELSE "officer"]
  /\ incident_reports = <<incident_reports_row("p1", NULL)>>
  /\ inserter = <<"p1">>
  /\ distress_notifications =
       [n \in 1..(NotificationsLimit + 1) |->
          IF n \in 2..8
          THEN Patch(distress_notifications_row(1, "p2", "p1"), acknowledgeNotification_payload("t1"))
          ELSE distress_notifications_row(1, "p2", "p1")]
  /\ resp = NoResponse
  /\ profile = [profiles EXCEPT !["p3"] = "user"]
  /\ open = [p \in Principals |-> FALSE]
  /\ videoFile = [p \in Principals |-> FALSE]
  /\ UserDashboard_reports =
       [p \in Principals |-> IF p = "p1" THEN OrderDesc(SelectReports(incident_reports, p, p))
                             ELSE <<>>]
  /\ toasts = NoToast
  /\ OfficerDashboard_reports =
       [p \in Principals |-> IF p = "p2"
                             THEN OrderDesc(OfficerDashboard_fetchReports(p, incident_reports).rows)
                             ELSE <<>>]
  /\ NotificationsList_notifications = [p \in Principals |-> <<>>]
  /\ SendNotificationDialog_open = [p \in Principals |-> 0]
  /\ fetches =
       [p \in Principals |->
          IF p = "p2" THEN <<>>
          ELSE <<NotificationsList_fetchNotifications(p, distress_notifications)>>]
  /\ channel = [p \in Principals |-> 0]
  /\ requests = <<>>
  /\ Rendered

\* the lists are answered and the displayed notifications acknowledged
NextOverflow ==
  \/ \E p \in Principals, fail \in BOOLEAN : \E k \in 1..Len(fetches[p]) :
        NotificationsList_setNotifications(p, k, fail)
  \/ \E p \in Principals, t \in Times, fail \in BOOLEAN : \E i \in NotifIds :
        NotificationsList_acknowledgeNotification(p, i, t, fail)

OverflowSpec == InitOverflow /\ [][NextOverflow]_vars

\* ------------------------------------------------ what a session renders
\* the hook's values change in session p (sign-in, sign-out, a profile that is
\* loaded or dropped, loading that starts or ends) and Index renders again; a
\* loaded profile is the principal's own row
useAuth_change(p, authUser, authLoading, authProfile) ==
  /\ HasProfile(p)
  /\ authProfile \in {NULL, profiles[p]}
  /\ <<authUser, authLoading, authProfile>> # <<user[p], loading[p], profile[p]>>
  /\ user' = [user EXCEPT ![p] = authUser]
  /\ loading' = [loading EXCEPT ![p] = authLoading]
  /\ profile' = [profile EXCEPT ![p] = authProfile]
  /\ page' = [page EXCEPT ![p] = Index(authUser, authLoading, authProfile)]
  /\ resp' = NoResponse
  /\ toasts' = NoToast
  /\ requests' = <<>>
  /\ UNCHANGED <<tables, open, videoFile, UserDashboard_reports, views>>

\* sessions of registered principals, whose roles the administrators set
NextDashboard ==
  \/ \E p \in Principals, r \in user_role : manual_role_approval(p, r) /\ UNCHANGED ui
  \/ \E p \in Principals, authUser \in BOOLEAN, authLoading \in BOOLEAN,
         authProfile \in user_role \cup {NULL} :
        useAuth_change(p, authUser, authLoading, authProfile)

DashboardSpec == InitRegistered /\ [][NextDashboard]_vars

\* ================================================================ claims

\* C1: a read of incident_reports or distress_notifications by a principal whose
\* stored role is not officer returns only rows that principal owns; a read aimed
\* at another principal's rows returns the empty result and no error.
Owner(op, row) == IF op = "select_reports" THEN row.reporter_id ELSE row.user_id

C1_NonOfficerReadsOwnRows ==
  (resp.op \in {"select_reports", "select_notifications"} /\ resp.role # "officer") =>
     /\ ~resp.error
     /\ \A r \in resp.rows : Owner(resp.op, r.row) = resp.caller
     /\ resp.target \notin {NULL, resp.caller} => resp.rows = {}

\* a user has asked for the reports of a principal who has filed one, and got none
C1_Witness ==
  /\ resp.op = "select_reports"
  /\ resp.role = "user"
  /\ resp.target \notin {NULL, resp.caller}
  /\ \E i \in ReportIds : incident_reports[i].reporter_id = resp.target
  /\ resp.rows = {}
  /\ ~resp.error

\* C2: an insert into distress_notifications sent by a principal whose stored role
\* is user is rejected and leaves the table unchanged, whatever the row it carries.
C2_UserInsertRejected ==
  [][(resp'.op = "insert_notification" /\ resp'.role = "user")
        => (resp'.error /\ distress_notifications' = distress_notifications)]_vars

C2_Witness ==
  /\ resp.op = "insert_notification"
  /\ resp.role = "user"
  /\ resp.error

\* C3: a principal's stored role goes from user to officer only by the
\* administrators' approval, never by a request the principal sends.
C3_ElevationOnlyByApproval ==
  [][\A p \in Principals :
        (profiles[p] = "user" /\ profiles'[p] = "officer")
           => resp'.op = "role_approval"]_vars

\* C4: no step changes the reporter_id of an existing incident report.
C4_ReporterImmutable ==
  [][\A i \in ReportIds :
        incident_reports'[i].reporter_id = incident_reports[i].reporter_id]_vars

\* C5: once a notification's acknowledged_at is non-null, no step makes it null.
C5_AcknowledgedStays ==
  [][\A i \in NotifIds :
        distress_notifications[i].acknowledged_at # NULL
           => distress_notifications'[i].acknowledged_at # NULL]_vars

\* C6: a step that changes a report's status or assigned_officer_id is an update
\* sent by a principal whose stored role is officer; an update sent by a user-role
\* principal, the reporter included, leaves the table unchanged.
C6_StatusAssignmentOfficerOnly ==
  [][/\ \A i \in ReportIds :
          (\/ incident_reports'[i].status # incident_reports[i].status
           \/ incident_reports'[i].assigned_officer_id
                 # incident_reports[i].assigned_officer_id)
             => (resp'.op = "update_report" /\ resp'.role = "officer")
     /\ (resp'.op = "update_report" /\ resp'.role = "user")
           => incident_reports' = incident_reports]_vars

\* a reporter with the user role has sent an update of their own report
C6_Witness ==
  /\ resp.op = "update_report"
  /\ resp.role = "user"
  /\ ~resp.error
  /\ resp.target \in ReportIds
  /\ incident_reports[resp.target].reporter_id = resp.caller
  /\ incident_reports[resp.target].status = "pending"

\* C7: a step that changes a notification is an update sent by its recipient.
C7_OnlyRecipientMutates ==
  [][\A i \in NotifIds :
        distress_notifications'[i] # distress_notifications[i]
           => (/\ resp'.op = "update_notification"
               /\ resp'.caller = distress_notifications[i].user_id)]_vars

\* the officer who sent a notification has sent an update of it
C7_Witness ==
  /\ resp.op = "update_notification"
  /\ resp.role = "officer"
  /\ ~resp.error
  /\ resp.target \in NotifIds
  /\ distress_notifications[resp.target].officer_id = resp.caller
  /\ distress_notifications[resp.target].user_id # resp.caller
  /\ distress_notifications[resp.target].status = "sent"

\* C8: in every state, each report's reporter_id is the principal whose insert
\* created the row.
C8_ReporterIsInserter ==
  \A i \in ReportIds : incident_reports[i].reporter_id = inserter[i]

\* C9: in every state, each notification's user_id is the reporter_id of the
\* report its incident_id references.
C9_RecipientIsReporter ==
  \A n \in NotifIds :
     distress_notifications[n].user_id
        = incident_reports[distress_notifications[n].incident_id].reporter_id

\* C10: a submission of the report form with no video selected, when it succeeds,
\* appends one row with status pending, video_url null, assigned_officer_id null
\* and reporter_id the submitting principal.
C10_FormSubmitWithoutVideo ==
  [][\A p \in Principals :
        (/\ resp'.op = "insert_report"
         /\ resp'.caller = p
         /\ ~resp'.error
         /\ ~videoFile[p])
        => /\ Len(incident_reports') = Len(incident_reports) + 1
           /\ incident_reports'[Len(incident_reports')] =
                [reporter_id |-> p, status |-> "pending",
                 assigned_officer_id |-> NULL, video_url |-> NULL]]_vars

\* a form without video has been submitted and the success toast shown
C10_Witness ==
  /\ resp.op = "insert_report"
  /\ ~resp.error
  /\ toasts = Toast(resp.caller, <<"Success">>)
  /\ incident_reports # <<>>
  /\ incident_reports[Len(incident_reports)].reporter_id = resp.caller
  /\ incident_reports[Len(incident_reports)].video_url = NULL
  /\ ~open[resp.caller]

\* C11: a status update that OfficerDashboard sends for a principal whose stored
\* role is officer returns no error and leaves the report with the status of the
\* button pressed and assigned_officer_id the sender, whoever was assigned before
\* and whatever the sender's list displayed: the row is the one the last committed
\* update wrote.
C11_LastWriteWins ==
  [][\A p \in Principals :
        (resp'.op = "update_report" /\ resp'.caller = p /\ resp'.role = "officer")
        => /\ ~resp'.error
           /\ resp'.target \in ReportIds
           /\ \E s \in Buttons(Entry(OfficerDashboard_reports[p], resp'.target).row.status) :
                 incident_reports'[resp'.target] =
                   [incident_reports[resp'.target] EXCEPT
                      !.status = s, !.assigned_officer_id = p]
           /\ \A j \in ReportIds \ {resp'.target} :
                 incident_reports'[j] = incident_reports[j]]_vars

\* p3 has resolved the report that p2's list still shows in progress under p2
C11_Witness ==
  /\ resp.op = "update_report"
  /\ resp.caller = "p3"
  /\ ~resp.error
  /\ incident_reports[resp.target].status = "resolved"
  /\ incident_reports[resp.target].assigned_officer_id = "p3"
  /\ Displayed(OfficerDashboard_reports["p2"], resp.target)
  /\ Entry(OfficerDashboard_reports["p2"], resp.target).row.status = "in_progress"
  /\ Entry(OfficerDashboard_reports["p2"], resp.target).row.assigned_officer_id = "p2"

\* C12: a notification that SendNotificationDialog inserts is stored with status
\* sent and addressed to the reporter of its incident, and raises one insert event
\* for the reporter's mounted NotificationsList and none for any other session;
\* the callback of an event starts exactly one list query, whose answer holds
\* every notification stored for that user; when the answer arrives the list on
\* display is that answer.
C12_OneRefetchShowsNewRow ==
  [][\A p \in Principals :
        /\ (resp'.op = "insert_notification" /\ resp'.caller = p /\ ~resp'.error)
           => LET n == Len(distress_notifications')
                  row == distress_notifications'[n]
              IN /\ n = Len(distress_notifications) + 1
                 /\ row.status = "sent"
                 /\ row.user_id = incident_reports[row.incident_id].reporter_id
                 /\ \A u \in Principals :
                       channel'[u] = channel[u] +
                         (IF u = row.user_id /\ NotificationsList_mounted(u) THEN 1 ELSE 0)
        /\ (NotificationsList_mounted(p) /\ channel'[p] = channel[p] - 1)
           => /\ Len(fetches'[p]) = Len(fetches[p]) + 1
              /\ SubSeq(fetches'[p], 1, Len(fetches[p])) = fetches[p]
              /\ \A n \in NotifIds :
                    distress_notifications[n].user_id = p
                    => [id |-> n, row |-> distress_notifications[n]]
                          \in fetches'[p][Len(fetches'[p])].rows
        /\ (resp'.op = "select_notifications" /\ resp'.caller = p /\ ~resp'.error)
           => /\ Len(NotificationsList_notifications'[p]) = Cardinality(resp'.rows)
              /\ \A r \in resp'.rows : Displayed(NotificationsList_notifications'[p], r.id)
              /\ \A k \in 1..Len(NotificationsList_notifications'[p]) :
                    NotificationsList_notifications'[p][k] \in resp'.rows]_vars

\* the answer of the query an insert event started has arrived, and the reporter's
\* list shows the officer's notification as sent
C12_Witness ==
  /\ resp.op = "select_notifications"
  /\ ~resp.error
  /\ channel[resp.caller] = 0
  /\ \E n \in NotifIds :
        /\ distress_notifications[n].user_id = resp.caller
        /\ distress_notifications[n].officer_id # resp.caller
        /\ Displayed(NotificationsList_notifications[resp.caller], n)
        /\ Entry(NotificationsList_notifications[resp.caller], n).row.status = "sent"

\* C13: under the operations of the application a notification is created with
\* status sent, its status changes only from sent to acknowledged, and no
\* notification has status resolved.
C13_SentThenAcknowledged ==
  [][/\ \A n \in NotifIds :
          /\ distress_notifications'[n].status # distress_notifications[n].status
             => /\ distress_notifications[n].status = "sent"
                /\ distress_notifications'[n].status = "acknowledged"
          /\ distress_notifications'[n].status # "resolved"
     /\ \A n \in (1..Len(distress_notifications')) \ NotifIds :
          distress_notifications'[n].status = "sent"]_vars

\* the recipient has acknowledged a notification through the list
C13_Witness ==
  /\ resp.op = "update_notification"
  /\ ~resp.error
  /\ toasts = Toast(resp.caller, <<"Acknowledged">>)
  /\ distress_notifications[resp.target].status = "acknowledged"
  /\ distress_notifications[resp.target].acknowledged_at # NULL

\* C14: a principal whose stored role is user while the session still renders the
\* officer dashboard is denied what the officer role grants: a status update
\* leaves incident_reports unchanged, a notification insert is rejected and
\* leaves distress_notifications unchanged, and a list query returns only
\* reports the principal filed.
C14_StoredRoleDecides ==
  [][\A p \in Principals :
        (profile[p] = "officer" /\ profiles[p] = "user")
        => /\ (resp'.op = "update_report" /\ resp'.caller = p)
                 => incident_reports' = incident_reports
           /\ (resp'.op = "insert_notification" /\ resp'.caller = p)
                 => (resp'.error /\ distress_notifications' = distress_notifications)
           /\ Len(fetches'[p]) > Len(fetches[p])
                 => \A r \in fetches'[p][Len(fetches'[p])].rows : r.row.reporter_id = p]_vars

\* an officer whose approval was withdrawn has pressed a status button of a
\* displayed report, which is still pending
C14_Witness ==
  /\ resp.op = "update_report"
  /\ resp.role = "user"
  /\ profile[resp.caller] = "officer"
  /\ incident_reports[resp.target].reporter_id # resp.caller
  /\ incident_reports[resp.target].status = "pending"
  /\ incident_reports[resp.target].assigned_officer_id = NULL

\* C15: an insert or update request on profiles changes no profile but the
\* caller's own, whoever the caller is; an insert for another principal's user_id
\* is answered with an error.
C15_ProfileWrittenByOwner ==
  [][/\ \A u \in Principals :
          (resp'.op \in {"insert_profile", "update_profile"} /\ resp'.caller # u)
             => profiles'[u] = profiles[u]
     /\ (resp'.op \in {"insert_profile", "update_profile"}
           /\ resp'.target # resp'.caller)
          => profiles' = profiles
     /\ (resp'.op = "insert_profile" /\ resp'.target # resp'.caller) => resp'.error]_vars

\* an officer has sent an update of the role of another principal's profile
C15_Witness ==
  /\ resp.op = "update_profile"
  /\ resp.role = "officer"
  /\ resp.target # resp.caller
  /\ HasProfile(resp.target)
  /\ profiles[resp.target] = "user"

\* C16: a registration creates the principal's profile, the only one, with role
\* user, with each contact attribute the metadata carries copied and each one it
\* lacks set to the empty string.
C16_RegistrationProfile ==
  [][resp'.op = "sign_up"
       => /\ profiles[resp'.caller] = NULL
          /\ profiles'[resp'.caller] = "user"
          /\ \A q \in Principals \ {resp'.caller} : profiles'[q] = profiles[q]
          /\ Cardinality(resp'.rows) = 1
          /\ \A row \in resp'.rows :
                /\ row.user_id = resp'.caller
                /\ row.role = "user"
                /\ \A a \in ContactAttributes :
                      row[a] = IF a \in DOMAIN resp'.target THEN resp'.target[a] ELSE ""]_vars

\* a principal has registered with metadata that lacks some contact attributes
C16_Witness ==
  /\ resp.op = "sign_up"
  /\ profiles[resp.caller] = "user"
  /\ DOMAIN resp.target # ContactAttributes
  /\ \E row \in resp.rows : row.sex = "" /\ row.gender = ""

\* C17: a submission with a video selected whose upload fails shows the warning
\* and still sends the insert, with video_url null; when the request reaches the
\* backend one row is appended, with video_url null and the submitter as
\* reporter, and the success path of a submission without video follows: the
\* success toast, the dialog closed, the selection cleared, the list re-fetched.
C17_UploadFailureNotFatal ==
  [][\A p \in Principals :
        (/\ toasts'.session = p
         /\ toasts'.shown # <<>>
         /\ toasts'.shown[1] = "Warning")
        => /\ videoFile[p]
           /\ resp'.op = "insert_report"
           /\ resp'.caller = p
           /\ resp'.role # NULL
              => /\ ~resp'.error
                 /\ incident_reports' =
                      Append(incident_reports, incident_reports_row(p, NULL))
                 /\ toasts'.shown[2] = "Success"
                 /\ ~open'[p]
                 /\ ~videoFile'[p]
                 /\ "select_reports" \in {requests'[k] : k \in 1..Len(requests')}]_vars

\* a report was submitted with a video whose upload failed
C17_Witness ==
  /\ resp.op = "insert_report"
  /\ ~resp.error
  /\ toasts = Toast(resp.caller, <<"Warning", "Success">>)
  /\ incident_reports[Len(incident_reports)].video_url = NULL
  /\ incident_reports[Len(incident_reports)].reporter_id = resp.caller
  /\ ~open[resp.caller]
  /\ Len(UserDashboard_reports[resp.caller]) = 1

\* C18: a mutation a dashboard sends and the policy denies (a report update or a
\* notification insert by a principal whose stored role is not officer, an update
\* of a notification by another principal than its recipient) shows the error
\* toast, shows no success toast, and changes no row.
Shown(title) == \E k \in 1..Len(toasts.shown) : toasts.shown[k] = title

C18_DenialShownAsFailure ==
  [][(/\ resp'.role \in user_role
      /\ \/ resp'.op \in {"update_report", "insert_notification"} /\ resp'.role # "officer"
         \/ /\ resp'.op = "update_notification"
            /\ distress_notifications[resp'.target].user_id # resp'.caller)
     => /\ Shown("Error")'
        /\ ~Shown("Success")'
        /\ UNCHANGED tables]_vars

\* C19: a step whose request fails shows an error toast and leaves the tables,
\* the lists on display and the dialogs as they were.
C19_FailureVisible ==
  [][resp'.error
       => /\ Shown("Error")'
          /\ UNCHANGED tables
          /\ UNCHANGED <<UserDashboard_reports, OfficerDashboard_reports,
                         NotificationsList_notifications>>
          /\ UNCHANGED <<open, videoFile, SendNotificationDialog_open>>]_vars

\* C20: a step sends at most one mutation request; a step that handles an answer
\* or an insert event sends none, so a mutation that failed is sent again only
\* by another click or submission.
Mutations(sent) ==
  {k \in 1..Len(sent) :
     sent[k] \in {"insert_report", "insert_notification",
                  "update_report", "update_notification"}}

C20_NoRetry ==
  [][/\ Cardinality(Mutations(requests')) <= 1
     /\ (\E p \in Principals :
            Len(fetches'[p]) < Len(fetches[p]) \/ channel'[p] < channel[p])
          => Mutations(requests') = {}
     /\ resp'.op \in {"insert_report", "insert_notification",
                      "update_report", "update_notification"}
          => Cardinality(Mutations(requests')) = 1]_vars

\* a status update has failed and nothing was sent after it
C20_Witness ==
  /\ resp.op = "update_report"
  /\ resp.error
  /\ requests = <<"update_report">>
  /\ toasts = Toast(resp.caller, <<"Error">>)

\* C21 (as amended): a report the officer dashboard displays as pending offers the
\* transition to in_progress and no other; one displayed as in_progress offers
\* the transitions to resolved and to closed; one displayed as resolved or closed
\* offers none.  A transition is offered when the click that stores it can be made.
C21_ExposedTransitions ==
  \A p \in Principals, id \in 1..MaxReports, t \in incident_status :
     (/\ OfficerDashboard_mounted(p)
      /\ profiles[p] = "officer"
      /\ Displayed(OfficerDashboard_reports[p], id)
      /\ Len(fetches[p]) < MaxInflight)
     => ((ENABLED (/\ OfficerDashboard_updateReportStatus(p, id, t, FALSE)
                   /\ incident_reports'[id].status = t))
         <=> <<Entry(OfficerDashboard_reports[p], id).row.status, t>>
                \in {<<"pending", "in_progress">>,
                     <<"in_progress", "resolved">>,
                     <<"in_progress", "closed">>})

\* an officer has closed a report the list displayed as in progress
C21_Witness ==
  /\ resp.op = "update_report"
  /\ resp.role = "officer"
  /\ ~resp.error
  /\ incident_reports[resp.target].status = "closed"
  /\ Entry(OfficerDashboard_reports[resp.caller], resp.target).row.status = "in_progress"

\* C21 (as stated): a report the officer dashboard displays as pending or as
\* in_progress offers the transition to closed.
C21_CloseFromPendingToo ==
  \A p \in Principals, id \in 1..MaxReports :
     (/\ OfficerDashboard_mounted(p)
      /\ profiles[p] = "officer"
      /\ Displayed(OfficerDashboard_reports[p], id)
      /\ Len(fetches[p]) < MaxInflight
      /\ Entry(OfficerDashboard_reports[p], id).row.status \in {"pending", "in_progress"})
     => ENABLED (/\ OfficerDashboard_updateReportStatus(p, id, "closed", FALSE)
                 /\ incident_reports'[id].status = "closed")

\* C22: a report whose stored status is resolved or closed keeps that status in
\* every step of the officer sessions, a session whose list is stale included.
C22_TerminalStatusStays ==
  [][\A i \in ReportIds :
        incident_reports[i].status \in {"resolved", "closed"}
           => incident_reports'[i].status = incident_reports[i].status]_vars

\* C23: a report that is inserted raises one insert event in every mounted
\* officer view, whoever filed it, and in no other view; a notification that is
\* inserted raises one event in the mounted list of the user its user_id names
\* and in no other view; events are raised by inserts only, and the callback of
\* an event starts one list query of its own view: of all reports in an officer
\* view, of the viewer's notifications in a user's list.
C23_SignalsByFilter ==
  [][/\ (resp'.op = "insert_report" /\ ~resp'.error)
        => \A u \in Principals :
              channel'[u] = channel[u] + (IF OfficerDashboard_mounted(u) THEN 1 ELSE 0)
     /\ (resp'.op = "insert_notification" /\ ~resp'.error)
        => \A u \in Principals :
              channel'[u] = channel[u] +
                (IF /\ NotificationsList_mounted(u)
                    /\ u = distress_notifications'[Len(distress_notifications')].user_id
                 THEN 1 ELSE 0)
     /\ \A p \in Principals :
          /\ channel'[p] > channel[p]
             => (resp'.op \in {"insert_report", "insert_notification"} /\ ~resp'.error)
          /\ channel'[p] < channel[p]
             => /\ channel'[p] = channel[p] - 1
                /\ Len(fetches'[p]) = Len(fetches[p]) + 1
                /\ LET query == fetches'[p][Len(fetches'[p])]
                   IN /\ query.caller = p
                      /\ OfficerDashboard_mounted(p)
                            => (query.op = "select_reports" /\ query.target = NULL)
                      /\ NotificationsList_mounted(p)
                            => (query.op = "select_notifications" /\ query.target = p)
          /\ Len(fetches'[p]) > Len(fetches[p]) => channel'[p] < channel[p]]_vars

\* two users have their list mounted; a notification was sent to p1, whose
\* subscription has an event to handle, and p3's has none
C23_Witness ==
  /\ resp.op = "insert_notification"
  /\ ~resp.error
  /\ NotificationsList_mounted("p1")
  /\ NotificationsList_mounted("p3")
  /\ distress_notifications[Len(distress_notifications)].user_id = "p1"
  /\ channel["p1"] = 1
  /\ channel["p3"] = 0

\* (second case of C23) two officer views have an event of p1's report to handle
C23_OfficerViews ==
  /\ resp.op = "insert_report"
  /\ resp.caller = "p1"
  /\ channel["p2"] = 1
  /\ channel["p3"] = 1

\* C24: in a view that has no insert event left to handle and no list query on
\* its way, every query having been answered without error in whatever order,
\* the list on display is the current filtered content of the table.
C24_RefetchOrderIndependent ==
  \A p \in Principals :
     (fetches[p] = <<>> /\ channel[p] = 0)
     => /\ OfficerDashboard_mounted(p)
           => OfficerDashboard_reports[p] =
                OrderDesc(OfficerDashboard_fetchReports(p, incident_reports).rows)
        /\ NotificationsList_mounted(p)
           => NotificationsList_notifications[p] =
                OrderDesc(NotificationsList_fetchNotifications(p, distress_notifications).rows)

\* C25: in every session the officer dashboard is rendered exactly when a user is
\* signed in, loading is over and the loaded profile's role is officer; the user
\* dashboard exactly when a user is signed in, loading is over and the loaded
\* profile's role is user; neither is rendered while loading, without a loaded
\* profile or without a user; and without a user, loading over, the index page
\* navigates to /auth.
C25_DashboardByRole ==
  \A p \in Principals :
     /\ page[p] = "OfficerDashboard"
           <=> (user[p] /\ ~loading[p] /\ profile[p] = "officer")
     /\ page[p] = "UserDashboard"
           <=> (user[p] /\ ~loading[p] /\ profile[p] = "user")
     /\ (loading[p] \/ profile[p] = NULL \/ ~user[p])
           => page[p] \notin {"OfficerDashboard", "UserDashboard"}
     /\ (~loading[p] /\ ~user[p]) => page[p] = "/auth"

\* one session shows the officer dashboard, one the user dashboard, and one is
\* signed in with no profile loaded yet
C25_Witness ==
  /\ page["p1"] = "UserDashboard"
  /\ page["p2"] = "OfficerDashboard"
  /\ user["p3"] /\ ~loading["p3"] /\ profile["p3"] = NULL
  /\ page["p3"] = "Loading profile..."

\* C26: a report is created pending with no officer assigned; its status and its
\* assignment change only in a status update an officer's dashboard sent and the
\* backend applied, which leaves the sender assigned and the status not pending;
\* so after every step a report that is not pending has an officer assigned,
\* the sender of the last applied status update, and a report with no officer
\* assigned is pending.
C26_StatusWithAssignment ==
  [][\A i \in 1..Len(incident_reports') :
        LET new == incident_reports'[i]
        IN /\ i \notin ReportIds
                 => (new.status = "pending" /\ new.assigned_officer_id = NULL)
           /\ i \in ReportIds
                 => IF /\ resp'.op = "update_report"
                       /\ resp'.target = i
                       /\ resp'.role = "officer"
                       /\ ~resp'.error
                    THEN /\ new.assigned_officer_id = resp'.caller
                         /\ new.status # "pending"
                    ELSE /\ new.status = incident_reports[i].status
                         /\ new.assigned_officer_id = incident_reports[i].assigned_officer_id
           /\ new.status # "pending" => new.assigned_officer_id \in Principals
           /\ new.assigned_officer_id = NULL => new.status = "pending"]_vars

\* an officer has resolved a report that another officer's list displays as
\* assigned to that other officer
C26_Witness ==
  /\ resp.op = "update_report"
  /\ ~resp.error
  /\ incident_reports[resp.target].status = "resolved"
  /\ incident_reports[resp.target].assigned_officer_id = resp.caller
  /\ inserter[resp.target] = incident_reports[resp.target].reporter_id
  /\ \E q \in Principals \ {resp.caller} :
        /\ Displayed(OfficerDashboard_reports[q], resp.target)
        /\ Entry(OfficerDashboard_reports[q], resp.target).row.assigned_officer_id = q

\* C27: in every state reached through the application, each notification has
\* acknowledged_at non-null exactly when its status is acknowledged.
C27_AcknowledgedIffStamped ==
  \A n \in NotifIds :
     distress_notifications[n].acknowledged_at # NULL
        <=> distress_notifications[n].status = "acknowledged"

\* a notification is stored as acknowledged, with its time, while the
\* recipient's list still displays it as sent, with none
C27_Witness ==
  \E n \in NotifIds :
     /\ distress_notifications[n].status = "acknowledged"
     /\ distress_notifications[n].acknowledged_at \in Times
     /\ LET list == NotificationsList_notifications[distress_notifications[n].user_id]
        IN /\ Displayed(list, n)
           /\ Entry(list, n).row.status = "sent"
           /\ Entry(list, n).row.acknowledged_at = NULL

\* C28: once a notification's acknowledged_at is set, no step of the recipient's
\* session changes its value, a session whose list still displays the
\* notification as sent included.
C28_AcknowledgedAtOnce ==
  [][\A n \in NotifIds :
        distress_notifications[n].acknowledged_at # NULL
           => distress_notifications'[n].acknowledged_at
                 = distress_notifications[n].acknowledged_at]_vars

\* C29: no step removes a profile, a report or a notification, a delete request
\* changes no table whoever sends it, and after every step each notification's
\* incident_id is the id of a stored report.
C29_NoRowDeleted ==
  [][/\ ReportIds \subseteq 1..Len(incident_reports')
     /\ NotifIds \subseteq 1..Len(distress_notifications')
     /\ \A p \in Principals : profiles[p] # NULL => profiles'[p] # NULL
     /\ \A n \in 1..Len(distress_notifications') :
           distress_notifications'[n].incident_id \in 1..Len(incident_reports')
     /\ resp'.op \in {"delete_report", "delete_notification", "delete_profile"}
           => (~resp'.error /\ UNCHANGED tables)]_vars

\* an officer has sent the delete of a report that has a notification
C29_Witness ==
  /\ resp.op = "delete_report"
  /\ resp.role = "officer"
  /\ resp.target \in ReportIds
  /\ \E n \in NotifIds : distress_notifications[n].incident_id = resp.target

====
